---- MODULE Spec2Model ----
(***************************************************************************)
(* Model of app.py: the URL normaliser (normalize_url), the status prober  *)
(* (check_url_status over _do_request) and the sheet walker                *)
(* (preload_sheets_data, ensure_status_column, process_sheets).            *)
(*                                                                         *)
(* Python strings are sequences of one-character strings.  The outcome of  *)
(* a call is a record [raised, value]: raised = TRUE is an exception that  *)
(* leaves the function, value is what it returns otherwise.                *)
(***************************************************************************)
EXTENDS Integers, Sequences, FiniteSets, TLC

VARIABLES
    pc,             \* position of the modelled call
    raw,            \* argument of normalize_url / check_url_status
    nres,           \* outcome of normalize_url(raw)
    nres2,          \* outcome of normalize_url(value of nres)
    http,           \* outcomes the 1st and the 2nd requests.get would have
    cres,           \* outcome of check_url_status(raw)
    reqs,           \* URLs handed to requests.get, in order
    sheets,         \* the spreadsheet: sheet name -> get_all_values()
    sheet_names,    \* the sheets selected for the run, in selection order
    sheets_data,    \* preload_sheets_data: sheet name -> values and columns
    total_urls,     \* preload_sheets_data: URL rows over the selected sheets
    processed,      \* process_sheets locals
    results_summary,
    detailed_results,
    si,             \* position of the loop over sheet_names
    ri,             \* position of the loop over values[1:]
    cells_to_update,
    sheet_total_urls,
    sheet_processed_urls,
    events,         \* store writes, probes and warnings, in order
    progress_log,   \* the values given to progress.progress, in order
    ret             \* what process_sheets returned

urlvars == <<raw, nres, nres2, http, cres, reqs>>

sheetvars == <<sheets, sheet_names, sheets_data, total_urls, processed,
               results_summary, detailed_results, si, ri, cells_to_update,
               sheet_total_urls, sheet_processed_urls, events, progress_log, ret>>

vars == <<pc, urlvars, sheetvars>>

(***************************************************************************)
(* Bounds                                                                  *)
(***************************************************************************)
\* longest tail of an input string after its prefix
MaxLen == 3

\* most body rows of the spreadsheet, all sheets together
MaxRows == 3

(***************************************************************************)
(* Characters and strings                                                  *)
(***************************************************************************)
UpperCase == <<"A","B","C","D","E","F","G","H","I","J","K","L","M",
               "N","O","P","Q","R","S","T","U","V","W","X","Y","Z">>

LowerCase == <<"a","b","c","d","e","f","g","h","i","j","k","l","m",
               "n","o","p","q","r","s","t","u","v","w","x","y","z">>

DigitChars == <<"0","1","2","3","4","5","6","7","8","9">>

Range(f) == {f[i] : i \in DOMAIN f}

\* characters str.strip() removes (the ones the inputs here can hold)
Whitespace == {" "}

\* urllib.parse.scheme_chars
scheme_chars == Range(UpperCase) \cup Range(LowerCase) \cup Range(DigitChars)
                    \cup {"+", "-", "."}

\* str.isascii() and str.isalpha()
AsciiAlpha == Range(UpperCase) \cup Range(LowerCase)

\* str.lower() of one character
LowerChar(c) ==
    IF \E i \in DOMAIN UpperCase : UpperCase[i] = c
    THEN LowerCase[CHOOSE i \in DOMAIN UpperCase : UpperCase[i] = c]
    ELSE c

\* str.lower()
Lower(s) == [i \in 1..Len(s) |-> LowerChar(s[i])]

RECURSIVE LStrip(_)
\* str.lstrip()
LStrip(s) ==
    IF s = <<>> THEN s
    ELSE IF Head(s) \in Whitespace THEN LStrip(Tail(s)) ELSE s

RECURSIVE RStrip(_)
\* str.rstrip()
RStrip(s) ==
    IF s = <<>> THEN s
    ELSE IF s[Len(s)] \in Whitespace THEN RStrip(SubSeq(s, 1, Len(s) - 1)) ELSE s

\* str.strip()
Strip(s) == RStrip(LStrip(s))

\* str.startswith(p)
StartsWith(s, p) == Len(s) >= Len(p) /\ SubSeq(s, 1, Len(p)) = p

\* str.find(c, start) for a one-character c: 0-based position, -1 when absent
FindFrom(s, c, start) ==
    IF \E i \in (start + 1)..Len(s) : s[i] = c
    THEN (CHOOSE i \in (start + 1)..Len(s) :
              s[i] = c /\ \A j \in (start + 1)..(i - 1) : s[j] # c) - 1
    ELSE -1

\* the slice s[a:b] (0-based, b exclusive)
Slice(s, a, b) == SubSeq(s, a + 1, b)

\* c in s
Contains(s, c) == \E i \in 1..Len(s) : s[i] = c

RECURSIVE Str(_)
\* str(n) of a non-negative int
Str(n) ==
    IF n < 10 THEN <<DigitChars[n + 1]>>
    ELSE Str(n \div 10) \o <<DigitChars[(n % 10) + 1]>>

Returned(v) == [raised |-> FALSE, value |-> v]

\* an exception leaving the call; it carries no value
Raised == [raised |-> TRUE, value |-> <<>>]

(***************************************************************************)
(* urllib.parse.urlparse, as far as normalize_url reads it: the scheme,    *)
(* and the ValueError("Invalid IPv6 URL") of an unbalanced bracket in the  *)
(* network location.                                                       *)
(***************************************************************************)
\* urlsplit: position of the ':' ending a scheme, -1 when there is none
SchemeEnd(url) ==
    LET i == FindFrom(url, ":", 0)
    IN  IF /\ i > 0
           /\ url[1] \in AsciiAlpha
           /\ \A k \in 1..i : url[k] \in scheme_chars
        THEN i ELSE -1

\* _splitnetloc(url, 2): the text between the leading // and the first of /?#
SplitNetloc(url) ==
    LET ds == {d \in {FindFrom(url, "/", 2), FindFrom(url, "?", 2),
                      FindFrom(url, "#", 2)} : d >= 0}
        delim == IF ds = {} THEN Len(url)
                 ELSE CHOOSE d \in ds : \A e \in ds : d <= e
    IN  Slice(url, 2, delim)

urlparse(url0) ==
    LET url  == LStrip(url0)
        i    == SchemeEnd(url)
        sch  == IF i >= 0 THEN Lower(Slice(url, 0, i)) ELSE <<>>
        rest == IF i >= 0 THEN Slice(url, i + 1, Len(url)) ELSE url
        netloc == IF StartsWith(rest, <<"/", "/">>) THEN SplitNetloc(rest) ELSE <<>>
    IN  IF Contains(netloc, "[") # Contains(netloc, "]")
        THEN [raised |-> TRUE, scheme |-> <<>>]
        ELSE [raised |-> FALSE, scheme |-> sch]

(***************************************************************************)
(* normalize_url                                                           *)
(***************************************************************************)
HTTP_COLON == <<"h","t","t","p",":">>

HTTP_PREFIX == <<"h","t","t","p",":","/","/">>

HTTPS_PREFIX == <<"h","t","t","p","s",":","/","/">>

normalize_url(url0) ==
    IF url0 = <<>> THEN Returned(<<>>)
    ELSE LET url == Strip(url0)
         IN  IF StartsWith(url, <<"/", "/">>) THEN Returned(HTTP_COLON \o url)
             ELSE LET parsed == urlparse(url)
                  IN  IF parsed.raised THEN Raised
                      ELSE IF parsed.scheme = <<>> THEN Returned(HTTP_PREFIX \o url)
                      ELSE Returned(url)

(***************************************************************************)
(* _do_request and check_url_status                                        *)
(***************************************************************************)
StatusCodes == {200, 404}

\* what one requests.get can do: answer with a status code, or raise
Outcomes == [exc : {FALSE}, status_code : StatusCodes]
                \cup [exc : {TRUE}, status_code : {0}]

SITE_NOT_FOUND == <<"S","i","t","e"," ","N","o","t"," ","F","o","u","n","d">>

\* _do_request(url) when requests.get behaves as o
do_request(o) == IF o.exc THEN Raised ELSE Returned(Str(o.status_code))

\* a second attempt that keeps the https scheme
FallbackUrl_SameScheme(url) == url

\* the URL of the second attempt
FallbackUrl(url) == HTTP_PREFIX \o Slice(url, Len(HTTPS_PREFIX), Len(url))

\* a retry after every failure, whatever the scheme
WantsFallback_Always(url) == TRUE

\* whether a failed first attempt is retried
WantsFallback(url) == StartsWith(url, HTTPS_PREFIX)

\* check_url_status(url0) when the first request behaves as o1 and a second
\* one as o2: its outcome and the requests it issued
check_url_status(url0, o1, o2) ==
    LET n == normalize_url(url0)
    IN  IF n.raised THEN [out |-> Raised, reqs |-> <<>>]
        ELSE IF n.value = <<>> THEN [out |-> Returned(<<>>), reqs |-> <<>>]
        ELSE LET url == n.value
                 r1  == do_request(o1)
             IN  IF ~r1.raised THEN [out |-> r1, reqs |-> <<url>>]
                 ELSE IF WantsFallback(url)
                 THEN LET http_url == FallbackUrl(url)
                          r2 == do_request(o2)
                      IN  IF ~r2.raised THEN [out |-> r2, reqs |-> <<url, http_url>>]
                          ELSE [out |-> Returned(SITE_NOT_FOUND),
                                reqs |-> <<url, http_url>>]
                 ELSE [out |-> Returned(SITE_NOT_FOUND), reqs |-> <<url>>]

(***************************************************************************)
(* Inputs of the URL functions                                             *)
(***************************************************************************)
TailChars == {"a", "1", "/", ":", "[", " "}

Tails == UNION {[1..n -> TailChars] : n \in 0..MaxLen}

Prefixes == {<<>>, HTTP_PREFIX, HTTPS_PREFIX,
             <<"H","T","T","P","S",":","/","/">>,
             <<"h","t","t","p","s",":">>}

Pads == {<<>>, <<" ">>}

InputStrings == {pad \o p \o t : pad \in Pads, p \in Prefixes, t \in Tails}

NoOutcome == [exc |-> TRUE, status_code |-> 0]

(***************************************************************************)
(* Sheets                                                                  *)
(***************************************************************************)
URL_COLUMN_NAME == "Source"

STATUS_COLUMN_NAME == "Response code"

\* list.index(x) + 1
IndexOf(s, x) == CHOOSE i \in 1..Len(s) : s[i] = x /\ \A j \in 1..(i - 1) : s[j] # x

\* the URL cell taken without trimming it
UrlOfRow_NoStrip(row, url_col) ==
    IF Len(row) >= url_col THEN row[url_col] ELSE <<>>

\* the trimmed URL cell of a body row, "" when the row is too short
UrlOfRow(row, url_col) ==
    IF Len(row) >= url_col THEN Strip(row[url_col]) ELSE <<>>

\* a write of the header row, ws.update("1:1", [headers_row])
HeaderWrite(name, headers_row) ==
    [type |-> "update", sheet |-> name, row |-> 1, cells |-> headers_row]

\* ensure_status_column rewriting the header row even when the column exists
ensure_status_column_AlwaysWrites(name, headers_row) ==
    IF STATUS_COLUMN_NAME \in Range(headers_row)
    THEN [col |-> IndexOf(headers_row, STATUS_COLUMN_NAME),
          headers |-> headers_row,
          writes |-> <<HeaderWrite(name, headers_row)>>]
    ELSE [col |-> Len(headers_row) + 1,
          headers |-> Append(headers_row, STATUS_COLUMN_NAME),
          writes |-> <<HeaderWrite(name, Append(headers_row, STATUS_COLUMN_NAME))>>]

\* ensure_status_column: the status column's 1-based index, the header row as
\* it leaves, and the write it sent
ensure_status_column(name, headers_row) ==
    IF STATUS_COLUMN_NAME \in Range(headers_row)
    THEN [col |-> IndexOf(headers_row, STATUS_COLUMN_NAME),
          headers |-> headers_row,
          writes |-> <<>>]
    ELSE LET appended == Append(headers_row, STATUS_COLUMN_NAME)
         IN  [col |-> Len(appended),
              headers |-> appended,
              writes |-> <<HeaderWrite(name, appended)>>]

\* a pre-scan counting every body row
SheetUrlCount_AllRows(values, url_col) == Len(values) - 1

\* the pre-scan's count of the rows of values[1:] with a non-empty URL
SheetUrlCount(values, url_col) ==
    Cardinality({i \in 2..Len(values) : UrlOfRow(values[i], url_col) # <<>>})

\* one turn of preload_sheets_data's loop; url_col = 0 stands for None
PreloadOne(name, values) ==
    IF values = <<>> \/ URL_COLUMN_NAME \notin Range(values[1])
    THEN [data |-> [values |-> values, url_col |-> 0, status_col |-> 0],
          count |-> 0,
          writes |-> <<>>]
    ELSE LET url_col_index == IndexOf(values[1], URL_COLUMN_NAME)
             status == ensure_status_column(name, values[1])
         IN  [data |-> [values |-> [values EXCEPT ![1] = status.headers],
                        url_col |-> url_col_index,
                        status_col |-> status.col],
              count |-> SheetUrlCount(values, url_col_index),
              writes |-> status.writes]

RECURSIVE PreloadTotal(_, _)
PreloadTotal(names, store) ==
    IF names = <<>> THEN 0
    ELSE PreloadOne(Head(names), store[Head(names)]).count
             + PreloadTotal(Tail(names), store)

RECURSIVE PreloadWrites(_, _)
PreloadWrites(names, store) ==
    IF names = <<>> THEN <<>>
    ELSE PreloadOne(Head(names), store[Head(names)]).writes
             \o PreloadWrites(Tail(names), store)

\* preload_sheets_data(SPREADSHEET_ID, names)
preload_sheets_data(names, store) ==
    [sheets_data |-> [n \in Range(names) |-> PreloadOne(n, store[n]).data],
     total_urls |-> PreloadTotal(names, store),
     writes |-> PreloadWrites(names, store)]

\* the summary entry of a sheet
SummaryEntry(name, total, done) ==
    [sheet |-> name, total_urls |-> total, processed_urls |-> done]

\* a skipped sheet leaving no entry
AppendSkipped_Nothing(summary, name) == summary

\* results_summary after the entry of a sheet that is skipped
AppendSkipped(summary, name) == Append(summary, SummaryEntry(name, 0, 0))

\* Cell(row=row_idx, col=status_col, value=status)
Cell(row_idx, status_col, status) ==
    [row |-> row_idx, col |-> status_col, value |-> status]

\* ws.update_cells(cells_to_update), sent only for a non-empty list
BatchWrite(name, cells) ==
    IF cells # <<>>
    THEN <<[type |-> "update_cells", sheet |-> name, row |-> 0, cells |-> cells]>>
    ELSE <<>>

ProbeEvent(name, row_idx) ==
    [type |-> "probe", sheet |-> name, row |-> row_idx, cells |-> <<>>]

WarningEvent(name) ==
    [type |-> "warning", sheet |-> name, row |-> 0, cells |-> <<>>]

(***************************************************************************)
(* The spreadsheets of the runs                                            *)
(***************************************************************************)
SheetNames == {"S1", "S2"}

\* URL cells: blank, a padded URL without scheme, a URL that urlparse rejects
UrlCells == {<<" ">>, <<" ", "a", " ">>,
             <<"h","t","t","p",":","/","/","[">>}

\* body rows under a header: a row of one empty cell (an empty URL cell when
\* the URL column is the first one, a row too short for it otherwise), or a
\* row of empty cells up to the URL column and a URL cell
RowsFor(header) ==
    IF URL_COLUMN_NAME \notin Range(header) THEN {<<<<"a">>>>}
    ELSE LET c == IndexOf(header, URL_COLUMN_NAME)
             filler == [i \in 1..(c - 1) |-> <<>>]
         IN  {<<<<>>>>} \cup {Append(filler, u) : u \in UrlCells}

Headers == {<<"Source">>, <<"Response code", "Source">>, <<"Name">>}

\* what get_all_values() can return with n body rows: nothing at all, or a
\* header row and the body
ValuesWithRows(n) ==
    (IF n = 0 THEN {<<>>} ELSE {})
        \cup UNION {{<<h>> \o b : b \in [1..n -> RowsFor(h)]} : h \in Headers}

\* the spreadsheets: two sheets with at most MaxRows body rows between them
Spreadsheets ==
    UNION {{[n \in SheetNames |-> IF n = "S1" THEN a ELSE b] :
               a \in ValuesWithRows(k),
               b \in UNION {ValuesWithRows(j) : j \in 0..(MaxRows - k)}} :
           k \in 0..MaxRows}

\* the selections: some sheets, each once, in any order
Selections ==
    {s \in UNION {[1..n -> SheetNames] : n \in 1..Cardinality(SheetNames)} :
        \A i, j \in 1..Len(s) : i # j => s[i] # s[j]}

NoReturn == [summary |-> <<>>, details |-> <<>>]

\* process_sheets not running
SheetsIdle ==
    /\ sheets = [n \in SheetNames |-> <<>>]
    /\ sheet_names = <<>>
    /\ sheets_data = <<>>
    /\ total_urls = 0
    /\ processed = 0
    /\ results_summary = <<>>
    /\ detailed_results = <<>>
    /\ si = 0
    /\ ri = 0
    /\ cells_to_update = <<>>
    /\ sheet_total_urls = 0
    /\ sheet_processed_urls = 0
    /\ events = <<>>
    /\ progress_log = <<>>
    /\ ret = NoReturn

UrlIdle ==
    /\ raw = <<>>
    /\ nres = Raised
    /\ nres2 = Raised
    /\ http = <<NoOutcome, NoOutcome>>
    /\ cres = Raised
    /\ reqs = <<>>

(***************************************************************************)
(* The URL functions applied to one input                                  *)
(***************************************************************************)
InitUrl ==
    /\ pc = "start"
    /\ raw \in InputStrings
    /\ nres = Raised
    /\ nres2 = Raised
    /\ http = <<NoOutcome, NoOutcome>>
    /\ cres = Raised
    /\ reqs = <<>>
    /\ SheetsIdle

\* normalize_url(raw)
CallNormalize ==
    /\ pc = "start"
    /\ nres' = normalize_url(raw)
    /\ pc' = "normalized"
    /\ UNCHANGED <<raw, nres2, http, cres, reqs, sheetvars>>

\* normalize_url applied to what normalize_url returned
CallNormalizeAgain ==
    /\ pc = "normalized"
    /\ ~nres.raised
    /\ nres2' = normalize_url(nres.value)
    /\ pc' = "renormalized"
    /\ UNCHANGED <<raw, nres, http, cres, reqs, sheetvars>>

\* check_url_status(raw), the network behaving in any way
CallCheckUrlStatus ==
    /\ pc = "start"
    /\ \E o1 \in Outcomes, o2 \in Outcomes :
          LET r == check_url_status(raw, o1, o2)
          IN  /\ http' = <<o1, o2>>
              /\ cres' = r.out
              /\ reqs' = r.reqs
    /\ nres' = normalize_url(raw)
    /\ pc' = "checked"
    /\ UNCHANGED <<raw, nres2, sheetvars>>

NextUrl == CallNormalize \/ CallNormalizeAgain \/ CallCheckUrlStatus

SpecUrl == InitUrl /\ [][NextUrl]_vars

(***************************************************************************)
(* process_sheets                                                          *)
(***************************************************************************)
Init ==
    /\ pc = "start"
    /\ sheets \in Spreadsheets
    /\ sheet_names \in Selections
    \* a sheet left out of the selection is not read: it is kept empty
    /\ \A n \in SheetNames \ Range(sheet_names) : sheets[n] = <<>>
    /\ sheets_data = <<>>
    /\ total_urls = 0
    /\ processed = 0
    /\ results_summary = <<>>
    /\ detailed_results = <<>>
    /\ si = 0
    /\ ri = 0
    /\ cells_to_update = <<>>
    /\ sheet_total_urls = 0
    /\ sheet_processed_urls = 0
    /\ events = <<>>
    /\ progress_log = <<>>
    /\ ret = NoReturn
    /\ UrlIdle

\* processed / total_urls, kept as the two integers
Fraction(n, d) == [num |-> n, den |-> d]

\* the entry of detailed_results
Detail(name, row_idx, url, status) ==
    [sheet |-> name, row |-> row_idx, url |-> url, status |-> status]

\* the sheet the loop over sheet_names is at
CurName == sheet_names[si]

CurData == sheets_data[CurName]

\* the pre-scan finds no URL: a warning, and the run returns [], []
PreloadNoUrls ==
    /\ pc = "start"
    /\ LET p == preload_sheets_data(sheet_names, sheets)
       IN  /\ p.total_urls = 0
           /\ sheets_data' = p.sheets_data
           /\ total_urls' = p.total_urls
           /\ events' = p.writes \o <<WarningEvent("")>>
    /\ ret' = [summary |-> <<>>, details |-> <<>>]
    /\ pc' = "done"
    /\ UNCHANGED <<sheets, sheet_names, processed, results_summary,
                   detailed_results, si, ri, cells_to_update, sheet_total_urls,
                   sheet_processed_urls, progress_log, urlvars>>

\* the pre-scan finds URLs: the loop over the sheets starts
PreloadAndStart ==
    /\ pc = "start"
    /\ LET p == preload_sheets_data(sheet_names, sheets)
       IN  /\ p.total_urls # 0
           /\ sheets_data' = p.sheets_data
           /\ total_urls' = p.total_urls
           /\ events' = p.writes
    /\ processed' = 0
    /\ results_summary' = <<>>
    /\ detailed_results' = <<>>
    /\ si' = 1
    /\ pc' = "sheet"
    /\ UNCHANGED <<sheets, sheet_names, ri, cells_to_update, sheet_total_urls,
                   sheet_processed_urls, progress_log, ret, urlvars>>

\* a sheet without values: its entry, and on to the next sheet
SkipEmptySheet ==
    /\ pc = "sheet"
    /\ si <= Len(sheet_names)
    /\ CurData.values = <<>>
    /\ results_summary' = AppendSkipped(results_summary, CurName)
    /\ si' = si + 1
    /\ UNCHANGED <<pc, sheets, sheet_names, sheets_data, total_urls, processed,
                   detailed_results, ri, cells_to_update, sheet_total_urls,
                   sheet_processed_urls, events, progress_log, ret, urlvars>>

\* a sheet without the URL column: a warning, its entry, the next sheet
SkipSheetWithoutUrlColumn ==
    /\ pc = "sheet"
    /\ si <= Len(sheet_names)
    /\ CurData.values # <<>>
    /\ CurData.url_col = 0
    /\ events' = Append(events, WarningEvent(CurName))
    /\ results_summary' = AppendSkipped(results_summary, CurName)
    /\ si' = si + 1
    /\ UNCHANGED <<pc, sheets, sheet_names, sheets_data, total_urls, processed,
                   detailed_results, ri, cells_to_update, sheet_total_urls,
                   sheet_processed_urls, progress_log, ret, urlvars>>

\* a sheet with the URL column: the loop over its body rows starts
EnterSheet ==
    /\ pc = "sheet"
    /\ si <= Len(sheet_names)
    /\ CurData.values # <<>>
    /\ CurData.url_col # 0
    /\ cells_to_update' = <<>>
    /\ sheet_total_urls' = 0
    /\ sheet_processed_urls' = 0
    /\ ri' = 1
    /\ pc' = "rows"
    /\ UNCHANGED <<sheets, sheet_names, sheets_data, total_urls, processed,
                   results_summary, detailed_results, si, events, progress_log,
                   ret, urlvars>>

\* a body row whose URL cell is missing, empty or blank
SkipRow ==
    /\ pc = "rows"
    /\ ri < Len(CurData.values)
    /\ UrlOfRow(CurData.values[ri + 1], CurData.url_col) = <<>>
    /\ ri' = ri + 1
    /\ UNCHANGED <<pc, sheets, sheet_names, sheets_data, total_urls, processed,
                   results_summary, detailed_results, si, cells_to_update,
                   sheet_total_urls, sheet_processed_urls, events, progress_log,
                   ret, urlvars>>

\* a body row with a URL: the probe, its cell, its detail, the progress
ProbeRow ==
    /\ pc = "rows"
    /\ ri < Len(CurData.values)
    /\ LET row_idx == ri + 1
           url == UrlOfRow(CurData.values[row_idx], CurData.url_col)
       IN  /\ url # <<>>
           /\ \E o1 \in Outcomes, o2 \in Outcomes :
                 LET r == check_url_status(url, o1, o2)
                 IN  /\ ~r.out.raised
                     /\ cells_to_update' =
                            Append(cells_to_update,
                                   Cell(row_idx, CurData.status_col, r.out.value))
                     /\ detailed_results' =
                            Append(detailed_results,
                                   Detail(CurName, row_idx, url, r.out.value))
           /\ events' = Append(events, ProbeEvent(CurName, row_idx))
    /\ sheet_total_urls' = sheet_total_urls + 1
    /\ sheet_processed_urls' = sheet_processed_urls + 1
    /\ processed' = processed + 1
    /\ progress_log' = Append(progress_log, Fraction(processed + 1, total_urls))
    /\ ri' = ri + 1
    /\ UNCHANGED <<pc, sheets, sheet_names, sheets_data, total_urls,
                   results_summary, si, ret, urlvars>>

\* a body row whose URL makes check_url_status raise: the exception leaves
\* process_sheets
ProbeRowRaises ==
    /\ pc = "rows"
    /\ ri < Len(CurData.values)
    /\ LET url == UrlOfRow(CurData.values[ri + 1], CurData.url_col)
       IN  /\ url # <<>>
           /\ check_url_status(url, NoOutcome, NoOutcome).out.raised
    /\ sheet_total_urls' = sheet_total_urls + 1
    /\ pc' = "raised"
    /\ UNCHANGED <<sheets, sheet_names, sheets_data, total_urls, processed,
                   results_summary, detailed_results, si, ri, cells_to_update,
                   sheet_processed_urls, events, progress_log, ret, urlvars>>

\* the body rows are exhausted: the batch write and the sheet's entry
FinishSheet ==
    /\ pc = "rows"
    /\ ri >= Len(CurData.values)
    /\ events' = events \o BatchWrite(CurName, cells_to_update)
    /\ results_summary' =
           Append(results_summary,
                  SummaryEntry(CurName, sheet_total_urls, sheet_processed_urls))
    /\ si' = si + 1
    /\ pc' = "sheet"
    /\ UNCHANGED <<sheets, sheet_names, sheets_data, total_urls, processed,
                   detailed_results, ri, cells_to_update, sheet_total_urls,
                   sheet_processed_urls, progress_log, ret, urlvars>>

\* the sheets are exhausted: return results_summary, detailed_results
Return ==
    /\ pc = "sheet"
    /\ si > Len(sheet_names)
    /\ ret' = [summary |-> results_summary, details |-> detailed_results]
    /\ pc' = "done"
    /\ UNCHANGED <<sheets, sheet_names, sheets_data, total_urls, processed,
                   results_summary, detailed_results, si, ri, cells_to_update,
                   sheet_total_urls, sheet_processed_urls, events, progress_log,
                   urlvars>>

Next ==
    \/ PreloadNoUrls
    \/ PreloadAndStart
    \/ SkipEmptySheet
    \/ SkipSheetWithoutUrlColumn
    \/ EnterSheet
    \/ SkipRow
    \/ ProbeRow
    \/ ProbeRowRaises
    \/ FinishSheet
    \/ Return

Spec == Init /\ [][Next]_vars

(***************************************************************************)
(* Properties of normalize_url and check_url_status                        *)
(***************************************************************************)
\* a non-empty string of decimal digits
IsNumeric(s) == s # <<>> /\ \A i \in 1..Len(s) : s[i] \in Range(DigitChars)

\* the scheme urlparse finds in a URL that parses
SchemeOf(url) == urlparse(url).scheme

HTTPS_SCHEME == <<"h","t","t","p","s">>

\* the URL with its scheme (any spelling of https) replaced by http
ForcedHttp(url) == <<"h","t","t","p">> \o Slice(url, SchemeEnd(url), Len(url))

\* C1: check_url_status never raises, and what it returns is a numeric status
\* string or "Site Not Found", for every input string and network behaviour.
C1_ProbeTotal ==
    pc = "checked" =>
        /\ ~cres.raised
        /\ (IsNumeric(cres.value) \/ cres.value = SITE_NOT_FOUND)

\* the normalisation rule as the specification states it
SpecNormalize(s) ==
    LET t == Strip(s)
    IN  IF t = <<>> THEN <<>>
        ELSE IF StartsWith(t, <<"/", "/">>) THEN HTTP_COLON \o t
        ELSE IF SchemeEnd(t) < 0 THEN HTTP_PREFIX \o t
        ELSE t

\* C2: normalize_url(s) is the stated rule applied to s trimmed: "" for an
\* empty or whitespace-only s, "http:" + t for //..., "http://" + t without a
\* scheme, t itself with one.
C2_NormalizeRule ==
    pc = "normalized" => nres = Returned(SpecNormalize(raw))

\* C3 as stated: whenever the normalised URL has scheme https and the first
\* request fails, a second request goes to the same URL with scheme http, and
\* its status (or "Site Not Found" when it fails too) is the result.
C3_FallbackForHttpsScheme ==
    (/\ pc = "checked"
     /\ ~nres.raised
     /\ nres.value # <<>>
     /\ SchemeOf(nres.value) = HTTPS_SCHEME
     /\ http[1].exc)
    => /\ reqs = <<nres.value, ForcedHttp(nres.value)>>
       /\ cres = IF http[2].exc THEN Returned(SITE_NOT_FOUND)
                 ELSE Returned(Str(http[2].status_code))

\* C3 amended: whenever the normalised URL starts with the literal lower-case
\* prefix https:// and the first request fails, exactly one more request goes
\* to http:// followed by the rest of the URL, and its status (or "Site Not
\* Found" when it fails too) is the result.
C3_FallbackForHttpsPrefix ==
    (/\ pc = "checked"
     /\ ~nres.raised
     /\ StartsWith(nres.value, HTTPS_PREFIX)
     /\ http[1].exc)
    => /\ reqs = <<nres.value, ForcedHttp(nres.value)>>
       /\ cres = IF http[2].exc THEN Returned(SITE_NOT_FOUND)
                 ELSE Returned(Str(http[2].status_code))

\* an https:// URL whose first request failed and whose retry answered 200
C3_Witness ==
    /\ pc = "checked"
    /\ StartsWith(nres.value, HTTPS_PREFIX)
    /\ http[1].exc
    /\ ~http[2].exc
    /\ Len(reqs) = 2
    /\ cres = Returned(<<"2", "0", "0">>)

\* C4: a call issues at most two requests; a second one only after a failed
\* first one to an https URL; a first request that succeeds, or fails on a
\* URL that is not https, is the only one, and the failure gives
\* "Site Not Found".
C4_AtMostOneRetry ==
    pc = "checked" =>
        /\ Len(reqs) <= 2
        /\ Len(reqs) = 2 =>
              http[1].exc /\ SchemeOf(reqs[1]) = HTTPS_SCHEME
        /\ (~nres.raised /\ nres.value # <<>>) =>
              /\ Len(reqs) >= 1
              /\ reqs[1] = nres.value
              /\ ~http[1].exc => Len(reqs) = 1
              /\ (http[1].exc /\ SchemeOf(nres.value) # HTTPS_SCHEME) =>
                    /\ Len(reqs) = 1
                    /\ cres = Returned(SITE_NOT_FOUND)

\* an http URL whose only request failed
C4_Witness ==
    /\ pc = "checked"
    /\ ~nres.raised
    /\ SchemeOf(nres.value) = <<"h","t","t","p">>
    /\ http[1].exc
    /\ Len(reqs) = 1
    /\ cres = Returned(SITE_NOT_FOUND)

\* C5: normalize_url is idempotent: applied to its own result it returns that
\* result again.
C5_NormalizeIdempotent ==
    pc = "renormalized" => nres2 = nres

(***************************************************************************)
(* Properties of process_sheets.  The sheets are described here from the   *)
(* spreadsheet as it was before the run.                                   *)
(***************************************************************************)
Selected == Range(sheet_names)

HasUrlColumn(name) ==
    sheets[name] # <<>> /\ URL_COLUMN_NAME \in Range(sheets[name][1])

UrlColumnOf(name) == IndexOf(sheets[name][1], URL_COLUMN_NAME)

HasStatusColumn(name) == STATUS_COLUMN_NAME \in Range(sheets[name][1])

\* where the status column is once the run has made sure of it
StatusColumnOf(name) ==
    IF HasStatusColumn(name) THEN IndexOf(sheets[name][1], STATUS_COLUMN_NAME)
    ELSE Len(sheets[name][1]) + 1

\* a cell holding nothing but whitespace
IsBlank(s) == \A i \in 1..Len(s) : s[i] \in Whitespace

\* the spreadsheet rows (header = row 1) of a sheet whose URL cell is there
\* and not blank
UrlRows(name) ==
    IF HasUrlColumn(name)
    THEN {r \in 2..Len(sheets[name]) :
             /\ Len(sheets[name][r]) >= UrlColumnOf(name)
             /\ ~IsBlank(sheets[name][r][UrlColumnOf(name)])}
    ELSE {}

RECURSIVE TotalUrlRows(_)
\* the URL rows of the selected sheets, all together
TotalUrlRows(names) ==
    IF names = <<>> THEN 0
    ELSE Cardinality(UrlRows(Head(names))) + TotalUrlRows(Tail(names))

DetailsOf(details, name) == SelectSeq(details, LAMBDA d : d.sheet = name)

EventsAt(type, name) ==
    {e \in 1..Len(events) : events[e].type = type /\ events[e].sheet = name}

ProbeEvents == {e \in 1..Len(events) : events[e].type = "probe"}

WriteEvents(name) == EventsAt("update", name) \cup EventsAt("update_cells", name)

\* one entry per selected sheet, in selection order, with 0 and 0 for a sheet
\* without URL rows
CompleteSummary(summary) ==
    /\ Len(summary) = Len(sheet_names)
    /\ \A i \in 1..Len(sheet_names) :
          /\ summary[i].sheet = sheet_names[i]
          /\ UrlRows(sheet_names[i]) = {} =>
                summary[i].total_urls = 0 /\ summary[i].processed_urls = 0

\* C6 as stated: the summary process_sheets returns has one entry per
\* selected sheet, in selection order, sheets without URLs with 0 and 0, also
\* when no selected sheet holds a URL.
C6_SummaryAlwaysComplete ==
    pc = "done" => CompleteSummary(ret.summary)

\* C6 amended: when some selected sheet holds a URL row the returned summary
\* has one entry per selected sheet, in selection order, sheets without URLs
\* with 0 and 0; when no selected sheet holds one, process_sheets returns an
\* empty summary and no details.
C6_SummaryCompleteUnlessNoUrls ==
    pc = "done" =>
        IF TotalUrlRows(sheet_names) = 0
        THEN ret.summary = <<>> /\ ret.details = <<>>
        ELSE CompleteSummary(ret.summary)

\* a finished run over two sheets, the first without URL rows
C6_Witness ==
    /\ pc = "done"
    /\ Len(ret.summary) = 2
    /\ UrlRows(sheet_names[1]) = {}
    /\ ret.summary[1].total_urls = 0
    /\ ret.summary[2].total_urls > 0

\* C7: once a sheet has been walked, its entry has total_urls =
\* processed_urls = N, the number of its rows with a non-blank URL cell, N
\* details were emitted for it, and they are those rows' and no other row's.
C7_CountingConsistency ==
    \A i \in 1..Len(results_summary) :
        LET name == sheet_names[i]
            ds == DetailsOf(detailed_results, name)
        IN  /\ results_summary[i].sheet = name
            /\ results_summary[i].total_urls = Cardinality(UrlRows(name))
            /\ results_summary[i].processed_urls = Cardinality(UrlRows(name))
            /\ Len(ds) = Cardinality(UrlRows(name))
            /\ {ds[k].row : k \in 1..Len(ds)} = UrlRows(name)

\* a walked sheet with URLs in rows 2 and 4 and none in row 3
C7_Witness ==
    \E i \in 1..Len(results_summary) :
        /\ UrlRows(sheet_names[i]) = {2, 4}
        /\ Len(sheets[sheet_names[i]]) = 4
        /\ results_summary[i].processed_urls = 2

\* the batch b of the sheet at position i of the selection comes after the
\* sheet's probes and before the later sheets' probes, and holds one cell per
\* probed row, at the row's spreadsheet index and the status column, with the
\* outcome of the row's detail
BatchMatchesProbes(i, b) ==
    LET name == sheet_names[i]
        ds == DetailsOf(detailed_results, name)
    IN  /\ \A e \in EventsAt("probe", name) : e < b
        /\ {events[e].row : e \in EventsAt("probe", name)} = UrlRows(name)
        /\ \A j \in (i + 1)..Len(sheet_names) :
              \A e \in EventsAt("probe", sheet_names[j]) : b < e
        /\ Len(events[b].cells) = Len(ds)
        /\ \A k \in 1..Len(ds) :
              /\ events[b].cells[k].row = ds[k].row
              /\ events[b].cells[k].col = StatusColumnOf(name)
              /\ events[b].cells[k].value = ds[k].status
              /\ ds[k].url = Strip(sheets[name][ds[k].row][UrlColumnOf(name)])

\* C8: when a run is over, every sheet with a probed row got exactly one
\* batch, sent after the last URL row of the sheet was probed and before any
\* probe of a later sheet; the batch holds one cell per probed row, at that
\* row's spreadsheet index and the status column, with the outcome of the
\* row's detail, and no other cell.
C8_BatchPerProbedSheet ==
    pc \in {"done", "raised"} =>
        \A i \in 1..Len(sheet_names) :
            LET batches == EventsAt("update_cells", sheet_names[i])
            IN  IF EventsAt("probe", sheet_names[i]) # {}
                THEN /\ Cardinality(batches) = 1
                     /\ \A b \in batches : BatchMatchesProbes(i, b)
                ELSE batches = {}

\* the same for the sheets whose walk came to its end, in every state: the
\* one batch of a walked sheet with URL rows, and no batch otherwise
BatchWrittenForWalkedSheets ==
    \A i \in 1..Len(sheet_names) :
        LET batches == EventsAt("update_cells", sheet_names[i])
        IN  IF i <= Len(results_summary) /\ UrlRows(sheet_names[i]) # {}
            THEN /\ Cardinality(batches) = 1
                 /\ \A b \in batches : BatchMatchesProbes(i, b)
            ELSE batches = {}

\* C9 as stated: a selected sheet gets at most one write request, sent after
\* its rows were probed, and no write comes before the first probe.
C9_OneWritePerSheet ==
    \A name \in SheetNames :
        /\ Cardinality(WriteEvents(name)) <= 1
        /\ \A w \in WriteEvents(name) :
              /\ \E e \in ProbeEvents : e < w
              /\ {events[e].row : e \in {x \in EventsAt("probe", name) : x < w}}
                     = UrlRows(name)

\* C9 amended: a selected sheet gets at most one batch of cells, sent after
\* all its URL rows were probed and never before the first probe; besides,
\* the pre-scan writes the header row, before any probe, of each selected
\* sheet that has the URL column and lacks the status column, once; there is
\* no other write.
C9_OneBatchAndOneHeaderWrite ==
    \A name \in SheetNames :
        /\ Cardinality(EventsAt("update_cells", name)) <= 1
        /\ \A w \in EventsAt("update_cells", name) :
              /\ \E e \in ProbeEvents : e < w
              /\ {events[e].row : e \in {x \in EventsAt("probe", name) : x < w}}
                     = UrlRows(name)
        /\ Cardinality(EventsAt("update", name)) =
               IF /\ pc # "start"
                  /\ name \in Selected
                  /\ HasUrlColumn(name)
                  /\ ~HasStatusColumn(name)
               THEN 1 ELSE 0
        /\ \A w \in EventsAt("update", name) :
              /\ \A e \in ProbeEvents : w < e
              /\ events[w].cells = Append(sheets[name][1], STATUS_COLUMN_NAME)
        /\ name \notin Selected => WriteEvents(name) = {}

\* a finished run in which a sheet got its header write and its batch
C9_Witness ==
    /\ pc = "done"
    /\ \E name \in Selected :
          /\ Cardinality(EventsAt("update", name)) = 1
          /\ Cardinality(EventsAt("update_cells", name)) = 1

\* C10: the k-th value given to the progress sink, one per probed row, is
\* k / T, T the number of URL rows of the selected sheets; k never exceeds T,
\* and the last value of a finished run is T / T.
C10_ProgressFractions ==
    /\ Len(progress_log) = Cardinality(ProbeEvents)
    /\ \A k \in 1..Len(progress_log) :
          /\ progress_log[k] = [num |-> k, den |-> TotalUrlRows(sheet_names)]
          /\ k <= TotalUrlRows(sheet_names)
    /\ (pc = "done" /\ progress_log # <<>>) =>
          progress_log[Len(progress_log)].num = progress_log[Len(progress_log)].den

\* a finished run over two sheets that reported 1/3, 2/3, 3/3
C10_Witness ==
    /\ pc = "done"
    /\ Len(sheet_names) = 2
    /\ UrlRows(sheet_names[1]) # {}
    /\ UrlRows(sheet_names[2]) # {}
    /\ Len(progress_log) = 3
    /\ progress_log[3] = [num |-> 3, den |-> 3]

====
